---- MODULE Spec2Model ----
(***************************************************************************)
(* A model of quart-cors (src/src/quart_cors/__init__.py): the origin      *)
(* matcher _get_origin_if_valid, the decision engine _apply_cors, the      *)
(* policy resolution helpers and the attachments (route_cors, cors).       *)
(*                                                                         *)
(* Python strings are sequences of one-character strings, so that          *)
(* str.lower(), the substring test `"*" in origin` and the element-wise    *)
(* iteration of a string are computed, not assumed.  None is the one       *)
(* sequence <<"None">>, which no string equals (its element is not a       *)
(* character).                                                             *)
(***************************************************************************)
EXTENDS Integers, Sequences, FiniteSets, TLC

VARIABLES
    pc,        \* position of the running request in the pipeline
    matched,   \* the last call of _get_origin_if_valid: inputs and result
    request,   \* the request being answered
    response,  \* the response being built for it
    policy,    \* the effective policy of the last call of _apply_cors
    call,      \* what the last call of _apply_cors did, and who made it
    outcome,   \* how the request ended: "ok", or "error500" after a raise
    first,     \* the first call of _apply_cors that completed on the response
    config,    \* app.config: the QUART_CORS_* keys
    deploy,    \* the attachments of the handler: decorators and cors() calls
    closure,   \* the route_cors wrapper's nonlocal option variables
    nreq,      \* requests received so far
    nwrites,   \* writes to app.config so far
    scope,     \* what is being served: "http" or "websocket"
    invoked,   \* times the handler has run for the current request
    decisions  \* times the origin matcher has decided the current request

vars == <<pc, matched, request, response, policy, call, outcome, first,
          config, deploy, closure, nreq, nwrites, scope, invoked, decisions>>

\* What is recorded of the handling of one request.
runVars == <<scope, invoked, decisions>>

\* The variables of the application, which one call of the matcher or of
\* _apply_cors leaves alone.
appVars == <<config, deploy, closure, nreq, nwrites>>

-----------------------------------------------------------------------------
(* Bounds of the model.                                                    *)

\* Longest Origin string handed to the matcher.
MaxOriginLen == 2
\* Largest allow_origin set handed to the matcher.
MaxAllowOrigin == 2
\* Requests one application receives.
MaxRequests == 2
\* Writes to app.config while the application runs.
MaxConfigWrites == 1

-----------------------------------------------------------------------------
(* Python values.                                                          *)

None == <<"None">>

Range(s) == {s[i] : i \in 1..Len(s)}

\* Every sequence over S of length at most n.
SeqsUpTo(S, n) == UNION {[1..k -> S] : k \in 0..n}

\* str.lower() on one character (the letters the model's strings use).
LowerChar(c) ==
    CASE c = "A" -> "a" [] c = "B" -> "b" [] c = "C" -> "c" [] c = "D" -> "d"
      [] c = "E" -> "e" [] c = "G" -> "g" [] c = "H" -> "h" [] c = "I" -> "i"
      [] c = "L" -> "l" [] c = "M" -> "m" [] c = "N" -> "n" [] c = "O" -> "o"
      [] c = "P" -> "p" [] c = "S" -> "s" [] c = "T" -> "t" [] c = "U" -> "u"
      [] c = "V" -> "v" [] c = "X" -> "x" [] c = "Y" -> "y"
      [] OTHER -> c

\* str.lower().
Lower(s) == [i \in 1..Len(s) |-> LowerChar(s[i])]

\* `c in s` for a one-character string c: Python's substring test.
ContainsChar(s, c) == \E i \in 1..Len(s) : s[i] = c

\* The wildcard string "*".
Star == <<"*">>

\* Every subset of S with at most n elements.
RECURSIVE SubsetsUpTo(_, _)
SubsetsUpTo(S, n) ==
    IF n = 0 THEN {{}}
    ELSE LET smaller == SubsetsUpTo(S, n - 1)
         IN smaller \cup {T \cup {e} : T \in smaller, e \in S}

\* Every order in which a Python set may be iterated.
Orderings(S) ==
    {f \in [1..Cardinality(S) -> S] : \A i, j \in 1..Cardinality(S) : f[i] = f[j] => i = j}

-----------------------------------------------------------------------------
(* werkzeug.datastructures.HeaderSet: the list of tokens as given          *)
(* (_headers) and the set of their lower-cased forms (_set), which decides *)
(* membership.                                                             *)

\* HeaderSet._set
HeaderSetFolded(hs) == {Lower(hs[i]) : i \in 1..Len(hs)}

\* HeaderSet.__contains__
HeaderSetContains(hs, token) == Lower(token) \in HeaderSetFolded(hs)

\* HeaderSet.as_set(): the lower-cased tokens.
HeaderSetAsSet(hs) == HeaderSetFolded(hs)

\* HeaderSet.add
HeaderSetAdd(hs, token) == IF HeaderSetContains(hs, token) THEN hs ELSE Append(hs, token)

-----------------------------------------------------------------------------
(* An allow_origin entry is a string or a compiled pattern.  A pattern is  *)
(* the sequence of its atoms: AnyChar, AnyStar, LitStar (an escaped star), *)
(* and any other character, which stands for itself.                       *)

StrEntry(s) == [kind |-> "str", v |-> s]
ReEntry(p) == [kind |-> "re", v |-> p]

AnyChar == "."
AnyStar == ".*"
LitStar == "\\*"

\* The atom accepts the character.
AtomAccepts(atom, c) ==
    IF atom = AnyChar THEN TRUE
    ELSE IF atom = LitStar THEN c = "*"
    ELSE c = atom

\* Pattern.match(s): the pattern matches a prefix of s.
RECURSIVE ReMatch(_, _)
ReMatch(p, s) ==
    IF p = <<>> THEN TRUE
    ELSE IF Head(p) = AnyStar
    THEN \E k \in 0..Len(s) : ReMatch(Tail(p), SubSeq(s, k + 1, Len(s)))
    ELSE s # <<>> /\ AtomAccepts(Head(p), Head(s)) /\ ReMatch(Tail(p), Tail(s))

\* A matcher that compares strings ignoring case.
RECURSIVE OriginLoopFold(_, _, _)
OriginLoopFold(origin, order, send_wildcard) ==
    IF order = <<>> THEN None
    ELSE LET allowed == Head(order) IN
         IF allowed = StrEntry(Star)
         THEN (IF send_wildcard THEN Star ELSE origin)
         ELSE IF allowed.kind = "re" /\ ReMatch(allowed.v, origin) THEN origin
         ELSE IF allowed.kind = "str" /\ Lower(origin) = Lower(allowed.v) THEN origin
         ELSE OriginLoopFold(origin, Tail(order), send_wildcard)

\* A matcher that echoes the origin for the wildcard whatever send_wildcard is.
RECURSIVE OriginLoopEcho(_, _, _)
OriginLoopEcho(origin, order, send_wildcard) ==
    IF order = <<>> THEN None
    ELSE LET allowed == Head(order) IN
         IF allowed = StrEntry(Star) THEN origin
         ELSE IF allowed.kind = "re" /\ ReMatch(allowed.v, origin) THEN origin
         ELSE IF allowed.kind = "str" /\ origin = allowed.v THEN origin
         ELSE OriginLoopEcho(origin, Tail(order), send_wildcard)

\* A matcher that answers a pattern match with the pattern's text.
RECURSIVE OriginLoopEntry(_, _, _)
OriginLoopEntry(origin, order, send_wildcard) ==
    IF order = <<>> THEN None
    ELSE LET allowed == Head(order) IN
         IF allowed = StrEntry(Star)
         THEN (IF send_wildcard THEN Star ELSE origin)
         ELSE IF allowed.kind = "re" /\ ReMatch(allowed.v, origin) THEN allowed.v
         ELSE IF allowed.kind = "str" /\ origin = allowed.v THEN origin
         ELSE OriginLoopEntry(origin, Tail(order), send_wildcard)

\* _get_origin_if_valid, with `order` the order in which the loop visits
\* the set allow_origin.
RECURSIVE OriginLoop(_, _, _)
OriginLoop(origin, order, send_wildcard) ==
    IF order = <<>> THEN None
    ELSE LET allowed == Head(order) IN
         IF allowed = StrEntry(Star)
         THEN (IF send_wildcard THEN Star ELSE origin)
         ELSE IF allowed.kind = "re" /\ ReMatch(allowed.v, origin) THEN origin
         ELSE IF allowed.kind = "str" /\ origin = allowed.v THEN origin
         ELSE OriginLoop(origin, Tail(order), send_wildcard)

GetOriginIfValid(origin, order, send_wildcard) ==
    IF origin = None \/ origin = <<>> THEN None
    ELSE OriginLoop(origin, order, send_wildcard)

-----------------------------------------------------------------------------
(* Requests, responses and policies.                                       *)

\* Optional[HeaderSet]: no HeaderSet.
NoneSet == <<None>>
\* Optional[int]: None, and an int.
NoneInt == <<>>
SomeInt(n) == <<n>>

GET == <<"G", "E", "T">>
HEAD == <<"H", "E", "A", "D">>
POST == <<"P", "O", "S", "T">>
OPTIONS == <<"O", "P", "T", "I", "O", "N", "S">>
PUT == <<"P", "U", "T">>
PATCH == <<"P", "A", "T", "C", "H">>
DELETE == <<"D", "E", "L", "E", "T", "E">>

\* The token response.vary.add is given.
OriginToken == <<"O", "r", "i", "g", "i", "n">>

\* A response as the handler (or make_default_options_response) returns it:
\* no access-control header, no Vary, no _QUART_CORS_APPLIED attribute.
PlainResponse(status, body) ==
    [status |-> status, body |-> body,
     access_control_allow_origin |-> None,
     access_control_allow_credentials |-> FALSE,
     access_control_expose_headers |-> NoneSet,
     access_control_allow_headers |-> NoneSet,
     access_control_allow_methods |-> NoneSet,
     access_control_max_age |-> NoneInt,
     vary |-> <<>>,
     applied |-> FALSE]

HandlerResponse == PlainResponse(200, "Hello")
DefaultOptionsResponse == PlainResponse(200, "")

NoRequest ==
    [origin |-> None, method |-> GET,
     access_control_request_method |-> None,
     access_control_request_headers |-> NoneSet]
NoResponse == PlainResponse(0, "")
NoPolicy ==
    [allow_credentials |-> FALSE, allow_headers |-> <<>>, allow_methods |-> <<>>,
     allow_origin |-> {}, expose_headers |-> <<>>, max_age |-> NoneInt,
     send_origin_wildcard |-> FALSE]
NoCall == [by |-> "none", kind |-> "none", origin |-> None]
NoFirst == [by |-> "none", response |-> NoResponse]

-----------------------------------------------------------------------------
(* _apply_cors.                                                            *)

\* Lines 361-362: wildcard origin with credentials.
PolicyConflict(p) == StrEntry(Star) \in p.allow_origin /\ p.allow_credentials

\* A preflight test that forgets the request's own method.
IsPreflightAnyMethod(request_method, method, p) ==
    /\ request_method # None
    /\ request_method # <<>>
    /\ \/ HeaderSetContains(p.allow_methods, request_method)
       \/ HeaderSetContains(p.allow_methods, Star)

\* Lines 372-376: the request is a preflight the policy answers.
IsPreflight(request_method, method, p) ==
    /\ method = OPTIONS
    /\ request_method # None
    /\ request_method # <<>>
    /\ \/ HeaderSetContains(p.allow_methods, request_method)
       \/ HeaderSetContains(p.allow_methods, Star)

\* An intersection of the tokens as written, case kept.
AllowHeadersValuesCased(request_headers, p) ==
    LET requested == IF request_headers = NoneSet THEN <<>> ELSE request_headers
    IN IF HeaderSetContains(p.allow_headers, Star)
       THEN {requested}
       ELSE Orderings(Range(p.allow_headers) \cap Range(requested))

\* Lines 377-384: the values access_control_allow_headers may get.  The
\* intersection is a Python set, turned into a HeaderSet in its iteration
\* order.
AllowHeadersValues(request_headers, p) ==
    LET requested == IF request_headers = NoneSet THEN <<>> ELSE request_headers
    IN IF HeaderSetContains(p.allow_headers, Star)
       THEN {requested}
       ELSE Orderings(HeaderSetAsSet(p.allow_headers) \cap HeaderSetAsSet(requested))

\* A decision that sends expose-headers whether or not the origin matched.
WriteHeadersAlways(origin, allow_headers_value, request_method, method, resp, p) ==
    LET r1 == IF origin = None
              THEN [resp EXCEPT !.access_control_expose_headers = p.expose_headers]
              ELSE [resp EXCEPT
                      !.access_control_allow_origin = origin,
                      !.access_control_allow_credentials = p.allow_credentials,
                      !.access_control_expose_headers = p.expose_headers]
        r2 == IF origin # None /\ IsPreflight(request_method, method, p)
              THEN [r1 EXCEPT
                      !.access_control_allow_headers = allow_headers_value,
                      !.access_control_allow_methods = p.allow_methods,
                      !.access_control_max_age =
                          IF p.max_age # NoneInt THEN p.max_age ELSE @]
              ELSE r1
        r3 == IF origin = None \/ ~ContainsChar(origin, "*")
              THEN [r2 EXCEPT !.vary = HeaderSetAdd(@, OriginToken)]
              ELSE r2
    IN [r3 EXCEPT !.applied = TRUE]

\* A decision that leaves the response unmarked.
WriteHeadersNoMarker(origin, allow_headers_value, request_method, method, resp, p) ==
    LET r1 == IF origin = None THEN resp
              ELSE [resp EXCEPT
                      !.access_control_allow_origin = origin,
                      !.access_control_allow_credentials = p.allow_credentials,
                      !.access_control_expose_headers = p.expose_headers]
        r2 == IF origin # None /\ IsPreflight(request_method, method, p)
              THEN [r1 EXCEPT
                      !.access_control_allow_headers = allow_headers_value,
                      !.access_control_allow_methods = p.allow_methods,
                      !.access_control_max_age =
                          IF p.max_age # NoneInt THEN p.max_age ELSE @]
              ELSE r1
    IN IF origin = None \/ ~ContainsChar(origin, "*")
       THEN [r2 EXCEPT !.vary = HeaderSetAdd(@, OriginToken)]
       ELSE r2

\* A header writer that adds Origin to Vary whatever the value written.
WriteHeadersVaryAlways(origin, allow_headers_value, request_method, method, resp, p) ==
    LET r1 == IF origin = None THEN resp
              ELSE [resp EXCEPT
                      !.access_control_allow_origin = origin,
                      !.access_control_allow_credentials = p.allow_credentials,
                      !.access_control_expose_headers = p.expose_headers]
        r2 == IF origin # None /\ IsPreflight(request_method, method, p)
              THEN [r1 EXCEPT
                      !.access_control_allow_headers = allow_headers_value,
                      !.access_control_allow_methods = p.allow_methods,
                      !.access_control_max_age =
                          IF p.max_age # NoneInt THEN p.max_age ELSE @]
              ELSE r1
        r3 == [r2 EXCEPT !.vary = HeaderSetAdd(@, OriginToken)]
    IN [r3 EXCEPT !.applied = TRUE]

\* Lines 368-391, once the matcher has returned `origin` and the allowed
\* headers have been computed.
WriteHeaders(origin, allow_headers_value, request_method, method, resp, p) ==
    LET r1 == IF origin = None THEN resp
              ELSE [resp EXCEPT
                      !.access_control_allow_origin = origin,
                      !.access_control_allow_credentials = p.allow_credentials,
                      !.access_control_expose_headers = p.expose_headers]
        r2 == IF origin # None /\ IsPreflight(request_method, method, p)
              THEN [r1 EXCEPT
                      !.access_control_allow_headers = allow_headers_value,
                      !.access_control_allow_methods = p.allow_methods,
                      !.access_control_max_age =
                          IF p.max_age # NoneInt THEN p.max_age ELSE @]
              ELSE r1
        r3 == IF origin = None \/ ~ContainsChar(origin, "*")
              THEN [r2 EXCEPT !.vary = HeaderSetAdd(@, OriginToken)]
              ELSE r2
    IN [r3 EXCEPT !.applied = TRUE]

\* An _apply_cors that raises only once the wildcard is about to be sent.
ApplyCorsLateConflict(request_origin, request_headers, request_method, method, resp, p) ==
    IF resp.applied
    THEN {[kind |-> "noop", origin |-> None, response |-> resp]}
    ELSE {IF origin # None /\ PolicyConflict(p)
          THEN [kind |-> "raised", origin |-> None, response |-> resp]
          ELSE [kind |-> "applied", origin |-> origin,
                response |-> WriteHeaders(origin, ah, request_method, method, resp, p)] :
            origin \in {GetOriginIfValid(request_origin, order, p.send_origin_wildcard) :
                          order \in Orderings(p.allow_origin)},
            ah \in AllowHeadersValues(request_headers, p)}

\* An _apply_cors without the check of line 364.
ApplyCorsNoGuard(request_origin, request_headers, request_method, method, resp, p) ==
    IF PolicyConflict(p)
    THEN {[kind |-> "raised", origin |-> None, response |-> resp]}
    ELSE {[kind |-> "applied", origin |-> origin,
           response |-> WriteHeaders(origin, ah, request_method, method, resp, p)] :
            origin \in {GetOriginIfValid(request_origin, order, p.send_origin_wildcard) :
                          order \in Orderings(p.allow_origin)},
            ah \in AllowHeadersValues(request_headers, p)}

\* _apply_cors: every outcome the call may have.  kind is "raised" (the
\* ValueError of line 362), "noop" (line 365) or "applied"; origin is the
\* matcher's return value.
ApplyCors(request_origin, request_headers, request_method, method, resp, p) ==
    IF PolicyConflict(p)
    THEN {[kind |-> "raised", origin |-> None, response |-> resp]}
    ELSE IF resp.applied
    THEN {[kind |-> "noop", origin |-> None, response |-> resp]}
    ELSE {[kind |-> "applied", origin |-> origin,
           response |-> WriteHeaders(origin, ah, request_method, method, resp, p)] :
            origin \in {GetOriginIfValid(request_origin, order, p.send_origin_wildcard) :
                          order \in Orderings(p.allow_origin)},
            ah \in AllowHeadersValues(request_headers, p)}

-----------------------------------------------------------------------------
(* Argument and configuration values.  A value carries its Python type in  *)
(* t; b, n, toks and ents hold a bool, a number, strings and origin        *)
(* entries.  A list of origins is kept as the set of its entries (the code *)
(* turns it into a set before any use).                                    *)

Raw(t, b, n, toks, ents) == [t |-> t, b |-> b, n |-> n, toks |-> toks, ents |-> ents]

RawNone == Raw("none", FALSE, 0, <<>>, {})
RawBool(b) == Raw("bool", b, 0, <<>>, {})
RawInt(n) == Raw("int", FALSE, n, <<>>, {})
\* A timedelta, in milliseconds.
RawTimedelta(ms) == Raw("timedelta", FALSE, ms, <<>>, {})
\* A float, in thousandths.
RawFloat(ms) == Raw("float", FALSE, ms, <<>>, {})
\* The TypeError raised while a value was being computed.
RawTypeError == Raw("typeerror", FALSE, 0, <<>>, {})
RawStr(s) == Raw("str", FALSE, 0, <<s>>, {})
RawPattern(p) == Raw("pattern", FALSE, 0, <<>>, {ReEntry(p)})
\* A list of header or method names.
RawList(tokens) == Raw("list", FALSE, 0, tokens, {})
\* A list of origins (strings and patterns).
RawOrigins(entries) == Raw("origins", FALSE, 0, <<>>, entries)
RawHeaderSet(tokens) == Raw("headerset", FALSE, 0, tokens, {})
RawSet(entries) == Raw("set", FALSE, 0, <<>>, entries)

\* A key app.config does not hold.
Unset == Raw("unset", FALSE, 0, <<>>, {})

ConfigKeys ==
    {"QUART_CORS_ALLOW_CREDENTIALS", "QUART_CORS_ALLOW_HEADERS",
     "QUART_CORS_ALLOW_METHODS", "QUART_CORS_ALLOW_ORIGIN",
     "QUART_CORS_EXPOSE_HEADERS", "QUART_CORS_MAX_AGE",
     "QUART_CORS_SEND_ORIGIN_WILDCARD"}

\* Lines 28-36.
DEFAULTS ==
    [k \in ConfigKeys |->
       CASE k = "QUART_CORS_ALLOW_CREDENTIALS" -> RawBool(FALSE)
         [] k = "QUART_CORS_ALLOW_HEADERS" -> RawList(<<Star>>)
         [] k = "QUART_CORS_ALLOW_METHODS" ->
                RawList(<<GET, HEAD, POST, OPTIONS, PUT, PATCH, DELETE>>)
         [] k = "QUART_CORS_ALLOW_ORIGIN" -> RawOrigins({StrEntry(Star)})
         [] k = "QUART_CORS_EXPOSE_HEADERS" -> RawList(<< <<>> >>)
         [] k = "QUART_CORS_MAX_AGE" -> RawNone
         [] k = "QUART_CORS_SEND_ORIGIN_WILDCARD" -> RawBool(TRUE)]

\* A lookup that never reads app.config.
GetConfigDefaultOnly(cfg, config_key) == DEFAULTS[config_key]

\* _get_config_or_default: current_app.config.get(config_key, DEFAULTS[config_key]).
GetConfigOrDefault(cfg, config_key) ==
    IF cfg[config_key] = Unset THEN DEFAULTS[config_key] ELSE cfg[config_key]

\* bool(value), for the values the boolean options take.
Truthy(value) == value.t = "bool" /\ value.b

\* Python's `value or other`.
PyOr(value, other) == IF Truthy(value) THEN value ELSE other

\* Iterating a str: its characters, each a one-character string.
CharsOf(s) == [i \in 1..Len(s) |-> <<s[i]>>]

\* _sanitise_header_set.  Only a str passed as the argument is wrapped in a
\* list; HeaderSet(value) iterates whatever it is given.
SanitiseHeaderSet(value, cfg, config_key) ==
    IF value.t = "none"
    THEN LET v == GetConfigOrDefault(cfg, config_key)
         IN IF v.t = "str" THEN RawHeaderSet(CharsOf(v.toks[1])) ELSE RawHeaderSet(v.toks)
    ELSE RawHeaderSet(value.toks)

\* _sanitise_origin_set.  Only a str or Pattern passed as the argument is
\* wrapped in a list; set(value) iterates whatever it is given.
SanitiseOriginSet(value, cfg, config_key) ==
    IF value.t = "none"
    THEN LET v == GetConfigOrDefault(cfg, config_key)
         IN IF v.t = "str"
            THEN RawSet({StrEntry(c) : c \in Range(CharsOf(v.toks[1]))})
            ELSE IF v.t = "pattern" THEN RawTypeError
            ELSE RawSet(v.ents)
    ELSE IF value.t = "str" THEN RawSet({StrEntry(value.toks[1])})
    ELSE RawSet(value.ents)

\* int(seconds) of a duration in milliseconds: truncation towards zero.
IntOfMillis(ms) == IF ms >= 0 THEN ms \div 1000 ELSE -((-ms) \div 1000)

\* int(value) of line 432: a timedelta has no int().
IntOf(v) ==
    IF v.t = "timedelta" THEN RawTypeError
    ELSE IF v.t = "float" THEN RawInt(IntOfMillis(v.n))
    ELSE RawInt(v.n)

\* _sanitise_max_age.  total_seconds() is taken only of a timedelta passed
\* as the argument (the elif of line 429).
SanitiseMaxAge(value, cfg, config_key) ==
    LET v == IF value.t = "none" THEN GetConfigOrDefault(cfg, config_key)
             ELSE IF value.t = "timedelta" THEN RawFloat(value.n)
             ELSE value
    IN IF v.t = "none" THEN RawNone ELSE IntOf(v)

\* The keyword arguments of route_cors and cors.
Args(allow_credentials, allow_headers, allow_methods, allow_origin, expose_headers, max_age, send_origin_wildcard) ==
    [allow_credentials |-> allow_credentials, allow_headers |-> allow_headers,
     allow_methods |-> allow_methods, allow_origin |-> allow_origin,
     expose_headers |-> expose_headers, max_age |-> max_age,
     send_origin_wildcard |-> send_origin_wildcard]

\* Lines 120-130 and 313-321: the seven options after resolution, as the
\* values the names are bound to.
ResolveArgs(args, cfg) ==
    [allow_credentials |->
         PyOr(args.allow_credentials,
              GetConfigOrDefault(cfg, "QUART_CORS_ALLOW_CREDENTIALS")),
     allow_headers |->
         SanitiseHeaderSet(args.allow_headers, cfg, "QUART_CORS_ALLOW_HEADERS"),
     allow_methods |->
         SanitiseHeaderSet(args.allow_methods, cfg, "QUART_CORS_ALLOW_METHODS"),
     allow_origin |->
         SanitiseOriginSet(args.allow_origin, cfg, "QUART_CORS_ALLOW_ORIGIN"),
     expose_headers |->
         SanitiseHeaderSet(args.expose_headers, cfg, "QUART_CORS_EXPOSE_HEADERS"),
     max_age |-> SanitiseMaxAge(args.max_age, cfg, "QUART_CORS_MAX_AGE"),
     send_origin_wildcard |->
         PyOr(args.send_origin_wildcard,
              GetConfigOrDefault(cfg, "QUART_CORS_SEND_ORIGIN_WILDCARD"))]

\* The resolution raised before _apply_cors could be called.
ResolveFails(resolved) ==
    resolved.allow_origin.t = "typeerror" \/ resolved.max_age.t = "typeerror"

\* The wrapper's nonlocal names after lines 120-130: the names assigned
\* before the statement that raised hold the resolved value, the others
\* the value they had.
Bound(args, resolved) ==
    IF resolved.allow_origin.t = "typeerror"
    THEN [args EXCEPT !.allow_credentials = resolved.allow_credentials,
                      !.allow_headers = resolved.allow_headers,
                      !.allow_methods = resolved.allow_methods]
    ELSE IF resolved.max_age.t = "typeerror"
    THEN [resolved EXCEPT !.max_age = args.max_age,
                          !.send_origin_wildcard = args.send_origin_wildcard]
    ELSE resolved

\* The resolved options as _apply_cors reads them.
PolicyOf(resolved) ==
    [allow_credentials |-> Truthy(resolved.allow_credentials),
     allow_headers |-> resolved.allow_headers.toks,
     allow_methods |-> resolved.allow_methods.toks,
     allow_origin |-> resolved.allow_origin.ents,
     expose_headers |-> resolved.expose_headers.toks,
     max_age |-> IF resolved.max_age.t = "none" THEN NoneInt
                 ELSE SomeInt(resolved.max_age.n),
     send_origin_wildcard |-> Truthy(resolved.send_origin_wildcard)]

-----------------------------------------------------------------------------
(* The application: a handler, its attachments and app.config.             *)

NoArgs == Args(RawNone, RawNone, RawNone, RawNone, RawNone, RawNone, RawNone)

\* An attachment: whether it is there, its keyword arguments, and (for
\* route_cors) provide_automatic_options.
Attachment(present, args, provide_automatic_options) ==
    [present |-> present, args |-> args,
     provide_automatic_options |-> provide_automatic_options]

Absent == Attachment(FALSE, NoArgs, FALSE)

EmptyConfig == [k \in ConfigKeys |-> Unset]

\* A specification that runs no application.
NoApplication ==
    /\ config = EmptyConfig
    /\ deploy = [route |-> Absent, blueprint |-> Absent, app |-> Absent,
                 exempt |-> FALSE]
    /\ closure = NoArgs
    /\ nreq = 0
    /\ nwrites = 0
    /\ scope = "http"
    /\ invoked = 0
    /\ decisions = 0

\* An exception that leaves the view function or an after_request function
\* reaches the client as a 500 response (test_credentials_and_wildcard).
Surface(kind) == IF kind \in {"raised", "typeerror"} THEN "error500" ELSE "ok"

-----------------------------------------------------------------------------
(* _apply_cors on its own: one call on a fresh response, for every request *)
(* and every policy of the sets below.                                     *)

RequestOrigins == {None, <<>>, <<"a">>, <<"A">>, Star, <<"a", "*">>}

RequestMethods == {GET, OPTIONS}

PreflightMethods == {None, <<>>, POST, <<"p", "o", "s", "t">>, DELETE}

\* Header tokens: X-a, x-a (the same token in another case), X-n and X-o.
HdrXa == <<"X", "-", "a">>
Hdrxa == <<"x", "-", "a">>
HdrXn == <<"X", "-", "n">>
HdrXo == <<"X", "-", "o">>

PreflightHeaders == {NoneSet, <<HdrXa, HdrXn>>}

Requests ==
    [origin : RequestOrigins, method : RequestMethods,
     access_control_request_method : PreflightMethods,
     access_control_request_headers : PreflightHeaders]

PolicyEntries ==
    {StrEntry(Star), StrEntry(<<"a">>), ReEntry(<<"a">>), ReEntry(<<AnyChar>>)}

Policies ==
    [allow_credentials : BOOLEAN,
     allow_headers : {<<Star>>, <<Hdrxa, HdrXo>>, <<HdrXo, Hdrxa>>},
     allow_methods : {<<GET, POST>>, <<Star>>},
     allow_origin : SubsetsUpTo(PolicyEntries, MaxAllowOrigin),
     expose_headers : {<< <<>> >>, <<HdrXo>>},
     max_age : {NoneInt, SomeInt(5)},
     send_origin_wildcard : BOOLEAN]

\* The response the wrapper hands to _apply_cors (lines 112-118).
ResponseFor(method) ==
    IF method = OPTIONS THEN DefaultOptionsResponse ELSE HandlerResponse

InitEngine ==
    /\ pc = "engine"
    /\ matched = [origin |-> None, allow_origin |-> {}, send_wildcard |-> FALSE,
                  result |-> None]
    /\ request \in Requests
    /\ response = ResponseFor(request.method)
    /\ policy \in Policies
    /\ call = NoCall
    /\ outcome = "pending"
    /\ first = NoFirst
    /\ NoApplication

EngineApplyCors ==
    /\ pc = "engine"
    /\ \E out \in ApplyCors(request.origin, request.access_control_request_headers,
                            request.access_control_request_method, request.method,
                            response, policy) :
         /\ response' = out.response
         /\ call' = [by |-> "engine", kind |-> out.kind, origin |-> out.origin]
         /\ outcome' = Surface(out.kind)
    /\ pc' = "called"
    /\ UNCHANGED <<matched, request, policy, first, appVars, runVars>>

NextEngine == EngineApplyCors

SpecEngine == InitEngine /\ [][NextEngine]_vars

-----------------------------------------------------------------------------
(* The matcher on its own: every Origin string up to MaxOriginLen against  *)
(* every allow_origin set of at most MaxAllowOrigin entries.               *)

OriginChars == {"a", "A", "*"}

OriginStrings == SeqsUpTo(OriginChars, MaxOriginLen)

Patterns == {<<"a">>, <<"a", AnyStar, "A">>, <<AnyChar, LitStar>>}

OriginEntries ==
    {StrEntry(s) : s \in OriginStrings} \cup {ReEntry(p) : p \in Patterns}

AllowOriginSets == SubsetsUpTo(OriginEntries, MaxAllowOrigin)

\* The matcher's inputs, before it has run.
MatchInputs ==
    [origin : OriginStrings \cup {None}, allow_origin : AllowOriginSets,
     send_wildcard : BOOLEAN, result : {None}]

InitMatch ==
    /\ pc = "matcher"
    /\ matched \in MatchInputs
    /\ request = NoRequest
    /\ response = NoResponse
    /\ policy = NoPolicy
    /\ call = NoCall
    /\ outcome = "pending"
    /\ first = NoFirst
    /\ NoApplication

MatchOrigin ==
    /\ pc = "matcher"
    /\ \E order \in Orderings(matched.allow_origin) :
          matched' = [matched EXCEPT
                        !.result = GetOriginIfValid(matched.origin, order,
                                                    matched.send_wildcard)]
    /\ pc' = "matched"
    /\ UNCHANGED <<request, response, policy, call, outcome, first, appVars, runVars>>

NextMatch == MatchOrigin

SpecMatch == InitMatch /\ [][NextMatch]_vars

-----------------------------------------------------------------------------
(* The application serving requests: the view function (wrapped by         *)
(* route_cors or not), then the blueprint's after_request function, then   *)
(* the application's.                                                      *)

HdrTokens == <<Hdrxa, HdrXo>>

\* Keyword arguments given to route_cors and cors.
ExplicitArgs ==
    {NoArgs,
     [NoArgs EXCEPT !.allow_origin = RawOrigins({StrEntry(<<"a">>)})],
     [NoArgs EXCEPT !.allow_origin = RawStr(<<"b">>)],
     [NoArgs EXCEPT !.allow_credentials = RawBool(TRUE)],
     [NoArgs EXCEPT !.allow_credentials = RawBool(FALSE),
                    !.send_origin_wildcard = RawBool(FALSE)],
     [NoArgs EXCEPT !.allow_origin = RawOrigins({StrEntry(<<"a">>)}),
                    !.allow_credentials = RawBool(TRUE)],
     [NoArgs EXCEPT !.allow_headers = RawList(HdrTokens),
                    !.allow_methods = RawList(<<GET, POST>>),
                    !.expose_headers = RawStr(HdrXo),
                    !.max_age = RawTimedelta(5000)]}

RouteAttachments ==
    {Absent, Attachment(TRUE, NoArgs, FALSE)}
        \cup {Attachment(TRUE, a, TRUE) : a \in ExplicitArgs}

BlueprintAttachments ==
    {Absent,
     Attachment(TRUE, [NoArgs EXCEPT !.allow_origin = RawOrigins({StrEntry(<<"b">>)})],
                FALSE)}

AppAttachments == {Absent} \cup {Attachment(TRUE, a, FALSE) : a \in ExplicitArgs}

Deployments ==
    [route : RouteAttachments, blueprint : BlueprintAttachments,
     app : AppAttachments, exempt : BOOLEAN]

\* The values the application writes to app.config.
ConfigValues ==
    [k \in ConfigKeys |->
       CASE k = "QUART_CORS_ALLOW_CREDENTIALS" -> {RawBool(TRUE)}
         [] k = "QUART_CORS_ALLOW_HEADERS" -> {RawList(HdrTokens)}
         [] k = "QUART_CORS_ALLOW_METHODS" -> {RawList(<<GET, POST>>)}
         [] k = "QUART_CORS_ALLOW_ORIGIN" -> {RawOrigins({StrEntry(<<"a">>)})}
         [] k = "QUART_CORS_EXPOSE_HEADERS" -> {RawList(<<HdrXo>>)}
         [] k = "QUART_CORS_MAX_AGE" -> {RawInt(5)}
         [] k = "QUART_CORS_SEND_ORIGIN_WILDCARD" -> {RawBool(FALSE)}]

\* The requests the application receives.
AppRequests ==
    [origin : {None, <<"a">>, <<"b">>}, method : {GET, OPTIONS},
     access_control_request_method : {None, POST},
     access_control_request_headers : {NoneSet}]

\* The Origin headers of the websocket handshakes the application receives.
HandshakeOrigins == {None, <<>>, <<"a">>, <<"b">>}

Handshakes ==
    [origin : HandshakeOrigins, method : {GET},
     access_control_request_method : {None},
     access_control_request_headers : {NoneSet}]

Init ==
    /\ pc = "idle"
    /\ matched = [origin |-> None, allow_origin |-> {}, send_wildcard |-> FALSE,
                  result |-> None]
    /\ request = NoRequest
    /\ response = NoResponse
    /\ policy = NoPolicy
    /\ call = NoCall
    /\ outcome = "pending"
    /\ first = NoFirst
    /\ config = EmptyConfig
    /\ deploy \in Deployments
    /\ closure = deploy.route.args
    /\ nreq = 0
    /\ nwrites = 0
    /\ scope = "http"
    /\ invoked = 0
    /\ decisions = 0

\* app.config[key] = value, between two requests.
SetConfig ==
    /\ pc = "idle"
    /\ nwrites < MaxConfigWrites
    /\ \E k \in ConfigKeys : \E v \in ConfigValues[k] :
         config' = [config EXCEPT ![k] = v]
    /\ nwrites' = nwrites + 1
    /\ UNCHANGED <<pc, matched, request, response, policy, call, outcome, first,
                   deploy, closure, nreq, runVars>>

\* What the arrival of a request or of a handshake resets.
Arrival ==
    /\ response' = NoResponse
    /\ policy' = NoPolicy
    /\ call' = NoCall
    /\ outcome' = "pending"
    /\ first' = NoFirst
    /\ invoked' = 0
    /\ decisions' = 0
    /\ nreq' = nreq + 1
    /\ UNCHANGED <<matched, config, deploy, closure, nwrites>>

\* A request arrives and is routed to the handler.
Receive ==
    /\ pc = "idle"
    /\ nreq < MaxRequests
    /\ request' \in AppRequests
    /\ scope' = "http"
    /\ pc' = "view"
    /\ Arrival

\* A websocket handshake arrives for the websocket handler.
ReceiveHandshake ==
    /\ pc = "idle"
    /\ nreq < MaxRequests
    /\ request' \in Handshakes
    /\ scope' = "websocket"
    /\ pc' = "ws_app"
    /\ Arrival

\* What one call of _apply_cors by `by` makes of the state.
Called(by, out, p, next) ==
    /\ response' = out.response
    /\ policy' = p
    /\ call' = [by |-> by, kind |-> out.kind, origin |-> out.origin]
    /\ first' = IF out.kind = "applied" /\ first.by = "none"
                THEN [by |-> by, response |-> out.response]
                ELSE first
    /\ decisions' = IF out.kind = "applied" THEN decisions + 1 ELSE decisions
    /\ outcome' = IF out.kind = "raised" THEN Surface(out.kind)
                  ELSE IF next = "done" THEN Surface(out.kind)
                  ELSE outcome
    /\ pc' = IF out.kind = "raised" THEN "done" ELSE next

\* The resolution of the options raised in `by`: the request ends in a 500.
Failed(by) ==
    /\ call' = [by |-> by, kind |-> "typeerror", origin |-> None]
    /\ outcome' = Surface("typeerror")
    /\ pc' = "done"
    /\ UNCHANGED <<policy, first, decisions>>

\* A wrapper that answers OPTIONS itself whatever provide_automatic_options is.
AutomaticAlways(provide_automatic_options, method) == method = OPTIONS

\* Line 112: the wrapper answers the request without calling the handler.
Automatic(provide_automatic_options, method) ==
    provide_automatic_options /\ method = OPTIONS

\* route_cors's wrapper (lines 106-145): the response, the options resolved
\* into the nonlocal variables, and _apply_cors.
RouteCorsWrapper ==
    /\ pc = "view"
    /\ deploy.route.present
    /\ LET automatic == Automatic(deploy.route.provide_automatic_options, request.method)
           made == IF automatic THEN DefaultOptionsResponse ELSE HandlerResponse
           resolved == ResolveArgs(closure, config)
       IN /\ invoked' = IF automatic THEN invoked ELSE invoked + 1
          /\ closure' = Bound(closure, resolved)
          /\ IF ResolveFails(resolved)
             THEN response' = made /\ Failed("route")
             ELSE \E out \in ApplyCors(request.origin,
                                       request.access_control_request_headers,
                                       request.access_control_request_method,
                                       request.method, made, PolicyOf(resolved)) :
                     Called("route", out, PolicyOf(resolved), "blueprint")
    /\ UNCHANGED <<matched, request, config, deploy, nreq, nwrites, scope>>

\* A view function that route_cors does not wrap.
PlainView ==
    /\ pc = "view"
    /\ ~deploy.route.present
    /\ response' = ResponseFor(request.method)
    /\ invoked' = invoked + 1
    /\ pc' = "blueprint"
    /\ UNCHANGED <<matched, request, policy, call, outcome, first, appVars, scope,
                   decisions>>

\* A lookup that finds no handler exempt.
IsExemptNever(d) == FALSE

\* Lines 324-325 and 294-295: the handler carries the attribute cors_exempt
\* sets.
IsExempt(d) == d.exempt

\* _after_request (lines 302-342) as registered by cors() on `hook`
\* ("blueprint" or "app"); without such a registration the response
\* passes through.
AfterRequest(hook, next) ==
    /\ pc = hook
    /\ IF ~deploy[hook].present
       THEN /\ pc' = next
            /\ outcome' = IF next = "done" THEN "ok" ELSE outcome
            /\ UNCHANGED <<response, policy, call, first, decisions>>
       ELSE LET resolved == ResolveArgs(deploy[hook].args, config) IN
            IF ResolveFails(resolved)
            THEN Failed(hook) /\ UNCHANGED response
            ELSE IF IsExempt(deploy)
            THEN /\ pc' = next
                 /\ outcome' = IF next = "done" THEN "ok" ELSE outcome
                 /\ call' = [by |-> hook, kind |-> "exempt", origin |-> None]
                 /\ policy' = PolicyOf(resolved)
                 /\ UNCHANGED <<response, first, decisions>>
            ELSE \E out \in ApplyCors(request.origin,
                                      request.access_control_request_headers,
                                      request.access_control_request_method,
                                      request.method, response, PolicyOf(resolved)) :
                    Called(hook, out, PolicyOf(resolved), next)
    /\ UNCHANGED <<matched, request, appVars, scope, invoked>>

BlueprintAfterRequest == AfterRequest("blueprint", "app")

AppAfterRequest == AfterRequest("app", "done")

\* The response (or the 500, or the 400 of an aborted handshake) is sent.
Send ==
    /\ pc = "done"
    /\ pc' = "idle"
    /\ request' = NoRequest
    /\ response' = NoResponse
    /\ policy' = NoPolicy
    /\ call' = NoCall
    /\ outcome' = "pending"
    /\ first' = NoFirst
    /\ scope' = "http"
    /\ invoked' = 0
    /\ decisions' = 0
    /\ UNCHANGED <<matched, appVars>>

\* A guard that lets a handshake without Origin header through.
ApplyWebsocketCorsLenient(origin, args, cfg) ==
    LET allow_origin == SanitiseOriginSet(args.allow_origin, cfg, "QUART_CORS_ALLOW_ORIGIN")
        send_origin_wildcard ==
            PyOr(args.send_origin_wildcard,
                 GetConfigOrDefault(cfg, "QUART_CORS_SEND_ORIGIN_WILDCARD"))
        p == [NoPolicy EXCEPT !.allow_origin = allow_origin.ents,
                              !.send_origin_wildcard = Truthy(send_origin_wildcard)]
    IN IF allow_origin.t = "typeerror"
       THEN {[kind |-> "typeerror", origin |-> None, policy |-> NoPolicy]}
       ELSE {[kind |-> IF valid = None /\ origin # None THEN "abort400" ELSE "allowed",
              origin |-> valid, policy |-> p] :
               valid \in {GetOriginIfValid(origin, order, p.send_origin_wildcard) :
                            order \in Orderings(p.allow_origin)}}

\* _apply_websocket_cors (lines 394-405) for the handshake's Origin: every
\* outcome the call may have.  kind is "typeerror" (the resolution raised),
\* "abort400" (line 405) or "allowed".
ApplyWebsocketCors(origin, args, cfg) ==
    LET allow_origin == SanitiseOriginSet(args.allow_origin, cfg, "QUART_CORS_ALLOW_ORIGIN")
        send_origin_wildcard ==
            PyOr(args.send_origin_wildcard,
                 GetConfigOrDefault(cfg, "QUART_CORS_SEND_ORIGIN_WILDCARD"))
        p == [NoPolicy EXCEPT !.allow_origin = allow_origin.ents,
                              !.send_origin_wildcard = Truthy(send_origin_wildcard)]
    IN IF allow_origin.t = "typeerror"
       THEN {[kind |-> "typeerror", origin |-> None, policy |-> NoPolicy]}
       ELSE {[kind |-> IF valid = None THEN "abort400" ELSE "allowed",
              origin |-> valid, policy |-> p] :
               valid \in {GetOriginIfValid(origin, order, p.send_origin_wildcard) :
                            order \in Orderings(p.allow_origin)}}

\* What one call of _apply_websocket_cors by `by` makes of the state; the
\* handler runs when `next` is "done" and nothing stopped the handshake.
Guarded(by, out, next) ==
    /\ call' = [by |-> by, kind |-> out.kind, origin |-> out.origin]
    /\ policy' = out.policy
    /\ decisions' = IF out.kind = "typeerror" THEN decisions ELSE decisions + 1
    /\ pc' = IF out.kind = "allowed" THEN next ELSE "done"
    /\ outcome' = IF out.kind = "abort400" THEN "abort400"
                  ELSE IF out.kind = "typeerror" THEN Surface(out.kind)
                  ELSE IF next = "done" THEN "ok"
                  ELSE outcome
    /\ invoked' = IF out.kind = "allowed" /\ next = "done" THEN invoked + 1 ELSE invoked

\* _before_websocket (lines 290-299) as registered by cors() on `hook`; the
\* application's function runs before the blueprint's.
BeforeWebsocket(at, hook, next) ==
    /\ pc = at
    /\ IF ~deploy[hook].present \/ IsExempt(deploy)
       THEN /\ pc' = next
            /\ UNCHANGED <<policy, call, outcome, invoked, decisions>>
       ELSE \E out \in ApplyWebsocketCors(request.origin, deploy[hook].args, config) :
               Guarded(hook, out, next)
    /\ UNCHANGED <<matched, request, response, first, appVars, scope>>

AppBeforeWebsocket == BeforeWebsocket("ws_app", "app", "ws_blueprint")

BlueprintBeforeWebsocket == BeforeWebsocket("ws_blueprint", "blueprint", "ws_view")

\* websocket_cors's wrapper (lines 186-195) around the websocket handler,
\* decorated with the allow_origin and send_origin_wildcard of deploy.route.
WebsocketCorsWrapper ==
    /\ pc = "ws_view"
    /\ deploy.route.present
    /\ \E out \in ApplyWebsocketCors(request.origin, deploy.route.args, config) :
          Guarded("route", out, "done")
    /\ UNCHANGED <<matched, request, response, first, appVars, scope>>

\* A websocket handler that websocket_cors does not wrap.
PlainWebsocketView ==
    /\ pc = "ws_view"
    /\ ~deploy.route.present
    /\ invoked' = invoked + 1
    /\ outcome' = "ok"
    /\ pc' = "done"
    /\ UNCHANGED <<matched, request, response, policy, call, first, appVars, scope,
                   decisions>>

Next ==
    \/ SetConfig
    \/ Receive
    \/ RouteCorsWrapper
    \/ PlainView
    \/ BlueprintAfterRequest
    \/ AppAfterRequest
    \/ ReceiveHandshake
    \/ AppBeforeWebsocket
    \/ BlueprintBeforeWebsocket
    \/ WebsocketCorsWrapper
    \/ PlainWebsocketView
    \/ Send

Spec == Init /\ [][Next]_vars

-----------------------------------------------------------------------------
(* The resolution of the options on its own: one request or handshake to   *)
(* an application with one attachment, for the kinds of value an argument  *)
(* or a configuration key may hold.                                        *)

\* A two-character origin.
OriginAb == <<"a", "b">>

\* One option given: a single string, a single pattern, credentials (with the
\* default wildcard origin) or a duration.
ResolveArgsSet ==
    {NoArgs,
     [NoArgs EXCEPT !.allow_origin = RawStr(OriginAb)],
     [NoArgs EXCEPT !.allow_origin = RawPattern(<<"a">>)],
     [NoArgs EXCEPT !.allow_headers = RawStr(Hdrxa)],
     [NoArgs EXCEPT !.allow_credentials = RawBool(TRUE)],
     [NoArgs EXCEPT !.max_age = RawTimedelta(5000)],
     [NoArgs EXCEPT !.max_age = RawTimedelta(5900)],
     [NoArgs EXCEPT !.max_age = RawFloat(5900)]}

\* app.config as written before the first request.
ResolveConfigs ==
    {[EmptyConfig EXCEPT !["QUART_CORS_ALLOW_ORIGIN"] = o,
                         !["QUART_CORS_ALLOW_HEADERS"] = h,
                         !["QUART_CORS_MAX_AGE"] = m] :
        o \in {Unset, RawStr(OriginAb), RawPattern(<<"a">>),
               RawOrigins({StrEntry(OriginAb)})},
        h \in {Unset, RawStr(Hdrxa), RawList(<<Hdrxa>>)},
        m \in {Unset, RawInt(5), RawTimedelta(5900), RawFloat(5900)}}

\* route_cors / websocket_cors on the handler, or cors() on the
\* application, with the handler exempt or not.
ResolveDeployments ==
    {[route |-> Attachment(TRUE, a, TRUE), blueprint |-> Absent, app |-> Absent,
      exempt |-> e] : a \in ResolveArgsSet, e \in BOOLEAN}
    \cup
    {[route |-> Absent, blueprint |-> Absent, app |-> Attachment(TRUE, a, FALSE),
      exempt |-> e] : a \in ResolveArgsSet, e \in BOOLEAN}

InitResolve ==
    /\ pc = "idle"
    /\ matched = [origin |-> None, allow_origin |-> {}, send_wildcard |-> FALSE,
                  result |-> None]
    /\ request = NoRequest
    /\ response = NoResponse
    /\ policy = NoPolicy
    /\ call = NoCall
    /\ outcome = "pending"
    /\ first = NoFirst
    /\ config \in ResolveConfigs
    /\ deploy \in ResolveDeployments
    /\ closure = deploy.route.args
    /\ nreq = 0
    /\ nwrites = 0
    /\ scope = "http"
    /\ invoked = 0
    /\ decisions = 0

\* The first request.
ReceiveOne == nreq = 0 /\ Receive

\* The first handshake.
ReceiveOneHandshake == nreq = 0 /\ ReceiveHandshake

NextResolve ==
    \/ ReceiveOne
    \/ ReceiveOneHandshake
    \/ RouteCorsWrapper
    \/ PlainView
    \/ BlueprintAfterRequest
    \/ AppAfterRequest
    \/ AppBeforeWebsocket
    \/ BlueprintBeforeWebsocket
    \/ WebsocketCorsWrapper
    \/ PlainWebsocketView
    \/ Send

SpecResolve == InitResolve /\ [][NextResolve]_vars

-----------------------------------------------------------------------------
(* Claims about the matcher.                                               *)

\* allow_origin holds only exact strings: no wildcard, no pattern.
OnlyExact(allow_origin) == \A e \in allow_origin : e.kind = "str" /\ e.v # Star

\* The entry, taken alone, accepts the origin.
EntryMatches(e, origin) ==
    \/ e.kind = "str" /\ e.v = origin
    \/ e.kind = "re" /\ ReMatch(e.v, origin)

\* C3 as stated: over exact strings only, the matcher returns the request
\* origin iff that origin is in the set as an identical string, for every
\* request origin; otherwise it returns None.
C3_ExactIffPresent_Original ==
    (pc = "matched" /\ OnlyExact(matched.allow_origin)) =>
        IF matched.origin # None /\ StrEntry(matched.origin) \in matched.allow_origin
        THEN matched.result = matched.origin
        ELSE matched.result = None

\* C3 amended: over exact strings only, the matcher returns the request
\* origin iff the origin is non-empty and is in the set as an identical,
\* case-sensitive string; an absent or empty origin and an origin that
\* differs from every entry (in case or otherwise) yield None.
C3_ExactIffPresent ==
    (pc = "matched" /\ OnlyExact(matched.allow_origin)) =>
        IF /\ matched.origin # None
           /\ matched.origin # <<>>
           /\ StrEntry(matched.origin) \in matched.allow_origin
        THEN matched.result = matched.origin
        ELSE matched.result = None

\* C3's case: an exact-string set holding the origin and a case variant of
\* it, and the origin returned.
C3_Witness ==
    /\ pc = "matched"
    /\ OnlyExact(matched.allow_origin)
    /\ matched.result = matched.origin
    /\ matched.origin # None
    /\ \E e \in matched.allow_origin :
          e.v # matched.origin /\ Lower(e.v) = Lower(matched.origin)

\* C4 as stated: with the wildcard in allow_origin and a non-empty origin
\* the matcher returns exactly "*" when send_wildcard is true and exactly
\* the request origin when it is false.
C4_WildcardValue_Original ==
    (/\ pc = "matched"
     /\ StrEntry(Star) \in matched.allow_origin
     /\ matched.origin # None
     /\ matched.origin # <<>>) =>
        matched.result = (IF matched.send_wildcard THEN Star ELSE matched.origin)

\* C4 amended: with the wildcard in allow_origin and a non-empty origin the
\* matcher never returns None; it returns the request origin when
\* send_wildcard is false; when send_wildcard is true it returns "*", or
\* the request origin if another entry of the set accepts the origin (the
\* set's iteration order decides which), so exactly "*" when no other
\* entry accepts the origin.
C4_WildcardValue ==
    (/\ pc = "matched"
     /\ StrEntry(Star) \in matched.allow_origin
     /\ matched.origin # None
     /\ matched.origin # <<>>) =>
        /\ matched.result # None
        /\ ~matched.send_wildcard => matched.result = matched.origin
        /\ matched.send_wildcard =>
              \/ matched.result = Star
              \/ /\ matched.result = matched.origin
                 /\ \E e \in matched.allow_origin \ {StrEntry(Star)} :
                       EntryMatches(e, matched.origin)

\* C4's case: the wildcard beside a pattern that accepts the origin, with
\* send_wildcard true and "*" returned.
C4_Witness ==
    /\ pc = "matched"
    /\ StrEntry(Star) \in matched.allow_origin
    /\ matched.send_wildcard
    /\ matched.origin \notin {None, <<>>, Star}
    /\ matched.result = Star
    /\ \E e \in matched.allow_origin : e.kind = "re" /\ ReMatch(e.v, matched.origin)

-----------------------------------------------------------------------------
(* Claims about one call of _apply_cors on a fresh response.               *)

\* The response carries no access-control-* header.
NoAccessControl(r) ==
    /\ r.access_control_allow_origin = None
    /\ r.access_control_allow_credentials = FALSE
    /\ r.access_control_expose_headers = NoneSet
    /\ r.access_control_allow_headers = NoneSet
    /\ r.access_control_allow_methods = NoneSet
    /\ r.access_control_max_age = NoneInt

\* The response carries none of the three preflight-specific headers.
NoPreflightHeaders(r) ==
    /\ r.access_control_allow_headers = NoneSet
    /\ r.access_control_allow_methods = NoneSet
    /\ r.access_control_max_age = NoneInt

\* Some entry of allow_origin accepts the origin.
SomeEntryAccepts(allow_origin, origin) ==
    \E e \in allow_origin : e = StrEntry(Star) \/ EntryMatches(e, origin)

\* The condition C5 states: an OPTIONS request whose
\* Access-Control-Request-Method is present, non-empty and a member of
\* allow_methods (tokens compare ignoring case), or allow_methods holds "*".
QualifyingPreflight(req, p) ==
    /\ req.method = OPTIONS
    /\ req.access_control_request_method \notin {None, <<>>}
    /\ \E m \in Range(p.allow_methods) :
         m = Star \/ Lower(m) = Lower(req.access_control_request_method)

\* C1: under a policy with "*" in allow_origin and allow_credentials true,
\* _apply_cors fails with the configuration-conflict error for every
\* request (the client gets a 500), and when it fails no access-control-*
\* header and no Vary entry has been written and the response is not marked
\* as applied.
C1_ConflictFailsFirst ==
    (/\ pc = "called"
     /\ StrEntry(Star) \in policy.allow_origin
     /\ policy.allow_credentials) =>
        /\ call.kind = "raised"
        /\ outcome = "error500"
        /\ NoAccessControl(response)
        /\ response.vary = <<>>
        /\ ~response.applied

\* C1's case: a request that carries no Origin at all, failed all the same.
C1_Witness ==
    /\ pc = "called"
    /\ call.kind = "raised"
    /\ request.origin = None
    /\ policy.allow_origin = {StrEntry(Star), StrEntry(<<"a">>)}

\* C2: under a valid policy the call is never refused; allow-origin,
\* allow-credentials and expose-headers are written (with the policy's
\* values) iff the matcher returned a value, which it does iff the Origin is
\* non-empty and an entry accepts it; otherwise no access-control-* header is
\* written; status and body stay the handler's.
C2_HeadersIffMatched ==
    (pc = "called" /\ ~(StrEntry(Star) \in policy.allow_origin /\ policy.allow_credentials)) =>
        /\ call.kind = "applied"
        /\ (call.origin # None) <=>
              /\ request.origin \notin {None, <<>>}
              /\ SomeEntryAccepts(policy.allow_origin, request.origin)
        /\ IF call.origin # None
           THEN /\ response.access_control_allow_origin = call.origin
                /\ response.access_control_allow_credentials = policy.allow_credentials
                /\ response.access_control_expose_headers = policy.expose_headers
           ELSE NoAccessControl(response)
        /\ response.status = ResponseFor(request.method).status
        /\ response.body = ResponseFor(request.method).body

\* C2's case: an Origin that no entry accepts, answered without headers.
C2_Witness ==
    /\ pc = "called"
    /\ call.kind = "applied"
    /\ request.origin = <<"A">>
    /\ policy.allow_origin = {StrEntry(<<"a">>), ReEntry(<<"a">>)}
    /\ NoAccessControl(response)
    /\ response.status = 200

\* C5 as stated: for a matched Origin the three preflight-specific headers
\* (allow-headers, allow-methods, max-age) are written iff the request is a
\* qualifying preflight; a non-qualifying request still gets allow-origin,
\* allow-credentials and expose-headers, and none of the three; allow-methods
\* is the whole policy.allow_methods.
C5_PreflightHeaders_Original ==
    (pc = "called" /\ call.kind = "applied" /\ call.origin # None) =>
        /\ response.access_control_allow_origin = call.origin
        /\ response.access_control_allow_credentials = policy.allow_credentials
        /\ response.access_control_expose_headers = policy.expose_headers
        /\ IF QualifyingPreflight(request, policy)
           THEN /\ response.access_control_allow_headers # NoneSet
                /\ response.access_control_allow_methods = policy.allow_methods
                /\ response.access_control_max_age # NoneInt
           ELSE NoPreflightHeaders(response)

\* C5 amended: as stated for allow-headers and allow-methods; max-age is
\* written iff the request is a qualifying preflight and policy.max_age is
\* not None, and then holds policy.max_age.
C5_PreflightHeaders ==
    (pc = "called" /\ call.kind = "applied" /\ call.origin # None) =>
        /\ response.access_control_allow_origin = call.origin
        /\ response.access_control_allow_credentials = policy.allow_credentials
        /\ response.access_control_expose_headers = policy.expose_headers
        /\ IF QualifyingPreflight(request, policy)
           THEN /\ response.access_control_allow_headers # NoneSet
                /\ response.access_control_allow_methods = policy.allow_methods
                /\ response.access_control_max_age = policy.max_age
           ELSE NoPreflightHeaders(response)

\* C5's case: an OPTIONS request whose preflight method the policy does not
\* allow, answered with allow-origin and without the preflight headers.
C5_Witness ==
    /\ pc = "called"
    /\ call.kind = "applied"
    /\ request.method = OPTIONS
    /\ request.access_control_request_method = DELETE
    /\ policy.allow_methods = <<GET, POST>>
    /\ policy.max_age = SomeInt(5)
    /\ response.access_control_allow_origin = Star
    /\ NoPreflightHeaders(response)

\* C6: on a qualifying preflight with a matched Origin, allow-headers is the
\* request's Access-Control-Request-Headers unchanged (none taken as empty)
\* when allow_headers holds "*"; otherwise it holds, once each, exactly the
\* tokens of allow_headers that the request also names, tokens compared
\* ignoring case (and given in lower case), whatever the order of the lists.
C6_AllowHeaders ==
    (/\ pc = "called"
     /\ call.kind = "applied"
     /\ call.origin # None
     /\ QualifyingPreflight(request, policy)) =>
        LET requested == IF request.access_control_request_headers = NoneSet
                         THEN <<>>
                         ELSE request.access_control_request_headers
            sent == response.access_control_allow_headers
        IN IF Star \in Range(policy.allow_headers)
           THEN sent = requested
           ELSE /\ sent # NoneSet
                /\ Range(sent) =
                     {Lower(a) : a \in {x \in Range(policy.allow_headers) :
                                          \E r \in Range(requested) : Lower(r) = Lower(x)}}
                /\ Len(sent) = Cardinality(Range(sent))

\* C6's case: allowed [x-a, X-o] against requested [X-a, X-n] gives x-a alone.
C6_Witness ==
    /\ pc = "called"
    /\ call.kind = "applied"
    /\ policy.allow_headers = <<Hdrxa, HdrXo>>
    /\ request.access_control_request_headers = <<HdrXa, HdrXn>>
    /\ response.access_control_allow_headers = <<Hdrxa>>

\* C7: after _apply_cors has processed a response, Origin is in Vary
\* whenever the resolved origin is None or a value other than the string
\* "*", and Origin was not added when the resolved origin is exactly "*".
C7_VaryOrigin ==
    (pc = "called" /\ call.kind = "applied") =>
        IF call.origin = Star
        THEN ~HeaderSetContains(response.vary, OriginToken)
        ELSE HeaderSetContains(response.vary, OriginToken)

-----------------------------------------------------------------------------
(* Claims about the application.                                           *)

\* The step is a call of _apply_cors by an after_request function.
IsHookCall == pc \in {"blueprint", "app"} /\ deploy[pc].present /\ ~deploy.exempt

\* C8 as stated: once a response is marked, every later call of _apply_cors
\* on it, whatever the policy, is a no-op that leaves the response as it is
\* and raises no error.
C8_LaterCallNoop_Original ==
    [][(response.applied /\ IsHookCall) =>
          /\ call'.kind = "noop"
          /\ response' = response
          /\ outcome' # "error500"]_vars

\* C8: a response is unmarked until a call of _apply_cors completes on it,
\* that call marks it, and the marker stays while the request lasts; a
\* later call on the marked response leaves every header as it is, and is a
\* no-op unless its policy has "*" in allow_origin with allow_credentials,
\* in which case it raises the configuration-conflict error.
C8_LaterCallNoop ==
    [][/\ (~response.applied /\ response'.applied) => call'.kind = "applied"
       /\ (call'.kind = "applied" /\ call' # call) => response'.applied
       /\ (response.applied /\ pc' # "idle") => response' = response
       /\ (response.applied /\ IsHookCall) =>
             /\ call'.by = pc
             /\ call'.kind = IF PolicyConflict(policy') THEN "raised" ELSE "noop"
             /\ (outcome' = "error500") = PolicyConflict(policy')]_vars

C8_Witness ==
    /\ call.by = "app"
    /\ call.kind = "noop"
    /\ first.by = "route"
    /\ response = first.response
    /\ response.applied
    /\ response.access_control_allow_origin # None
    /\ policy.allow_origin # {StrEntry(response.access_control_allow_origin)}

\* The attachment nearest to the handler that acts on its responses.
Innermost ==
    IF deploy.route.present THEN "route"
    ELSE IF deploy.exempt THEN "none"
    ELSE IF deploy.blueprint.present THEN "blueprint"
    ELSE IF deploy.app.present THEN "app"
    ELSE "none"

\* The policy attachment `at` resolves for the request being served.
PolicyAt(at) ==
    IF at = "route" THEN PolicyOf(ResolveArgs(closure, config))
    ELSE PolicyOf(ResolveArgs(deploy[at].args, config))

\* The attachments whose _apply_cors the response goes through.
Acting ==
    {at \in {"route", "blueprint", "app"} :
        deploy[at].present /\ (at = "route" \/ ~deploy.exempt)}

\* C9 as stated: the request completes with the innermost attachment's
\* result whatever the policies of the outer attachments are.
C9_InnermostDecides_Original ==
    (pc = "done" /\ scope = "http" /\ Innermost # "none"
        /\ ~PolicyConflict(PolicyAt(Innermost))) =>
        /\ outcome = "ok"
        /\ first.by = Innermost
        /\ response = first.response

\* C9: when no attachment acting on the response resolves a policy with "*"
\* in allow_origin and allow_credentials, the final response is the one the
\* innermost attachment (route, else blueprint, else application) decided,
\* with no header added, changed or removed by an outer one; when some
\* acting attachment resolves such a policy the request ends in a 500.
C9_InnermostDecides ==
    (pc = "done" /\ scope = "http") =>
        IF \E at \in Acting : PolicyConflict(PolicyAt(at))
        THEN outcome = "error500" /\ call.kind = "raised"
        ELSE /\ outcome = "ok"
             /\ first.by = Innermost
             /\ IF Innermost = "none"
                THEN NoAccessControl(response) /\ ~response.applied
                ELSE response = first.response

\* The innermost attachment refused the origin, the outer one allows it.
C9_Witness ==
    /\ pc = "done"
    /\ outcome = "ok"
    /\ first.by = "route"
    /\ call.by = "app"
    /\ request.origin = <<"a">>
    /\ NoAccessControl(response)
    /\ StrEntry(<<"a">>) \in PolicyAt("app").allow_origin

\* The value the claim gives an option: the argument if given, else the
\* configured value if set, else the default.
Chosen(arg, cfg, key) ==
    IF arg # RawNone THEN arg
    ELSE IF cfg[key] # Unset THEN cfg[key]
    ELSE DEFAULTS[key]

ClaimedPolicy(args, cfg) ==
    LET origin == Chosen(args.allow_origin, cfg, "QUART_CORS_ALLOW_ORIGIN")
        age == Chosen(args.max_age, cfg, "QUART_CORS_MAX_AGE")
    IN [allow_credentials |->
            Chosen(args.allow_credentials, cfg, "QUART_CORS_ALLOW_CREDENTIALS").b,
        allow_headers |-> Chosen(args.allow_headers, cfg, "QUART_CORS_ALLOW_HEADERS").toks,
        allow_methods |-> Chosen(args.allow_methods, cfg, "QUART_CORS_ALLOW_METHODS").toks,
        allow_origin |-> IF origin.t = "str" THEN {StrEntry(origin.toks[1])}
                         ELSE origin.ents,
        expose_headers |->
            Chosen(args.expose_headers, cfg, "QUART_CORS_EXPOSE_HEADERS").toks,
        max_age |-> IF age.t = "none" THEN NoneInt
                    ELSE IF age.t = "timedelta" THEN SomeInt(IntOfMillis(age.n))
                    ELSE SomeInt(age.n),
        send_origin_wildcard |->
            Chosen(args.send_origin_wildcard, cfg, "QUART_CORS_SEND_ORIGIN_WILDCARD").b]

\* C10: every option of every attachment resolves to the explicit argument
\* if one was given (an explicit False included), else to the QUART_CORS_*
\* configuration value if set, else to the default.
C10_ExplicitWins ==
    (pc # "idle" /\ scope = "http" /\ call.by \in {"route", "blueprint", "app"}) =>
        policy = ClaimedPolicy(deploy[call.by].args, config)

\* The options an attachment was given no value for.
NotGiven(args) == {f \in DOMAIN args : args[f] = RawNone}

\* The options _apply_websocket_cors uses.
WebsocketOptions == {"allow_origin", "send_origin_wildcard"}

\* C11: a handler wrapped by route_cors is decided, for every option it was
\* given no value for, with the configuration in force when the request is
\* served, whatever requests and configuration writes came before.
C11_RouteReadsConfig ==
    (pc # "idle" /\ scope = "http" /\ call.by = "route" /\ call.kind # "typeerror") =>
        \A f \in NotGiven(deploy.route.args) :
            policy[f] = ClaimedPolicy(NoArgs, config)[f]

\* C12: the after_request function and the websocket guard registered by
\* cors() decide every request and every handshake, for every option cors()
\* was given no value for, with the configuration in force at that time.
C12_HookReadsConfig ==
    (pc # "idle" /\ call.by \in {"blueprint", "app"} /\ call.kind # "typeerror") =>
        \A f \in NotGiven(deploy[call.by].args) :
            (scope = "http" \/ f \in WebsocketOptions) =>
                policy[f] = ClaimedPolicy(NoArgs, config)[f]

\* The application's hook decides the second request with an allow_origin
\* written to app.config after the first one (the route wrapper still holds
\* the value it resolved then).
C12_Witness ==
    /\ pc = "done"
    /\ scope = "http"
    /\ nreq = 2
    /\ call.by = "app"
    /\ deploy.app.args = NoArgs
    /\ deploy.route.present
    /\ closure.allow_origin = RawSet({StrEntry(Star)})
    /\ config["QUART_CORS_ALLOW_ORIGIN"] = RawOrigins({StrEntry(<<"a">>)})
    /\ policy.allow_origin = {StrEntry(<<"a">>)}

\* The cors() registrations whose websocket guard the handshake goes through.
Guards == {h \in {"app", "blueprint"} : deploy[h].present /\ ~deploy.exempt}

\* The allow_origin of attachment `at` refuses the Origin: the header is
\* missing or empty, or no entry accepts it.
Refuses(at, origin) ==
    \/ origin \in {None, <<>>}
    \/ ~SomeEntryAccepts(ClaimedPolicy(deploy[at].args, config).allow_origin, origin)

\* C13: a handshake for a handler without websocket_cors, under cors(), is
\* aborted with 400 iff the handler is not exempt and a registered guard's
\* allow_origin refuses the Origin (missing, empty or not allowed); the
\* handler does not run then, and runs once otherwise; credentials, headers,
\* methods and send_origin_wildcard play no part and no 500 is produced; for
\* an exempt handler the handshake proceeds for every Origin.
C13_HandshakeGuard ==
    (pc = "done" /\ scope = "websocket" /\ ~deploy.route.present) =>
        IF \E h \in Guards : Refuses(h, request.origin)
        THEN outcome = "abort400" /\ invoked = 0
        ELSE outcome = "ok" /\ invoked = 1

\* cors(app) alone: a handshake whose Origin is present but not allowed is
\* aborted before the handler runs.
C13_Witness ==
    /\ pc = "done"
    /\ scope = "websocket"
    /\ ~deploy.route.present
    /\ ~deploy.blueprint.present
    /\ deploy.app.present
    /\ ~deploy.exempt
    /\ request.origin = <<"b">>
    /\ call.by = "app"
    /\ call.kind = "abort400"
    /\ outcome = "abort400"
    /\ invoked = 0

\* C14: the decision is made once per response and once per handshake; a
\* handshake whose Origin the websocket_cors policy of the handler allows is
\* not rejected because of the policy of cors().
C14_DecidedOnce ==
    pc = "done" =>
        /\ decisions <= 1
        /\ (scope = "websocket" /\ deploy.route.present
              /\ ~Refuses("route", request.origin)) => outcome # "abort400"

\* C16: once the route_cors wrapper has run for a request, the handler has
\* not run and the response is the default OPTIONS response when
\* provide_automatic_options is set and the method is OPTIONS, and the
\* handler has run exactly once and made the response in every other case,
\* whatever the decision was (match, no match, configuration conflict).
C16_HandlerRuns ==
    (scope = "http" /\ deploy.route.present /\ pc \in {"blueprint", "app", "done"}) =>
        /\ call.kind \in {"applied", "raised", "noop", "exempt"}
        /\ IF deploy.route.provide_automatic_options /\ request.method = OPTIONS
           THEN invoked = 0 /\ response.status = 200 /\ response.body = ""
           ELSE invoked = 1 /\ response.status = 200 /\ response.body = "Hello"

\* An OPTIONS request to a wrapper without provide_automatic_options whose
\* policy raises the conflict: the handler has run.
C16_Witness ==
    /\ scope = "http"
    /\ pc = "done"
    /\ deploy.route.present
    /\ ~deploy.route.provide_automatic_options
    /\ request.method = OPTIONS
    /\ call.by = "route"
    /\ call.kind = "raised"
    /\ invoked = 1
    /\ response.body = "Hello"

\* The response is as the handler or the framework made it.
Untouched(r) ==
    /\ NoAccessControl(r)
    /\ r.vary = <<>>
    /\ ~r.applied
    /\ r.status = 200

\* The options cannot be resolved from these arguments and this
\* configuration: allow_origin comes from a configuration value that is a
\* single compiled pattern, or max_age from one that is a timedelta.
Unresolvable(args, cfg) ==
    \/ args.allow_origin = RawNone /\ cfg["QUART_CORS_ALLOW_ORIGIN"].t = "pattern"
    \/ args.max_age = RawNone /\ cfg["QUART_CORS_MAX_AGE"].t = "timedelta"

Sole == IF deploy.route.present THEN "route" ELSE "app"

\* The whole seconds of a duration of n thousandths of a second: the
\* largest whole number of seconds not above it.
WholeSeconds(n) == CHOOSE e \in 0..(n + 1) : e * 1000 <= n /\ n < (e + 1) * 1000

\* C17: access-control-max-age is on a response only if the request is a
\* qualifying preflight and the max_age chosen for the policy (argument,
\* else configuration) is present; its value is the chosen duration cut to
\* its whole seconds (5 s gives 5, 5.9 s gives 5); so a qualifying preflight
\* from an allowed origin carries that value whenever a max_age is chosen.
\* (Stated for applications whose QUART_CORS_ALLOW_ORIGIN is unset or a
\* list.)
C17_MaxAgeSeconds ==
    (scope = "http" /\ pc = "done" /\ deploy[Sole].present
       /\ config["QUART_CORS_ALLOW_ORIGIN"].t \in {"unset", "origins"}) =>
        LET age == Chosen(deploy[Sole].args.max_age, config, "QUART_CORS_MAX_AGE")
            seconds == IF age.t = "int" THEN age.n ELSE WholeSeconds(age.n)
            claimed == ClaimedPolicy(deploy[Sole].args, config)
        IN /\ response.access_control_max_age # NoneInt =>
                /\ QualifyingPreflight(request, claimed)
                /\ age.t # "none"
                /\ response.access_control_max_age = SomeInt(seconds)
           /\ (/\ Sole = "route" \/ ~deploy.exempt
               /\ ~PolicyConflict(claimed)
               /\ ~Refuses(Sole, request.origin)
               /\ QualifyingPreflight(request, claimed)
               /\ age.t # "none") => response.access_control_max_age = SomeInt(seconds)

\* C18: a single string or single compiled pattern chosen for allow_origin,
\* and a single string chosen for allow_headers, whether it was passed to
\* the attachment or read from the configuration, resolves to the set
\* holding exactly that one element, never to its characters.  (Stated for
\* calls whose max_age resolves.)
C18_SingleValue ==
    (/\ pc # "idle"
     /\ call.by \in {"route", "blueprint", "app"}
     /\ ~(deploy[call.by].args.max_age = RawNone
            /\ config["QUART_CORS_MAX_AGE"].t = "timedelta")) =>
        LET args == deploy[call.by].args
            origin == Chosen(args.allow_origin, config, "QUART_CORS_ALLOW_ORIGIN")
            headers == Chosen(args.allow_headers, config, "QUART_CORS_ALLOW_HEADERS")
        IN /\ origin.t = "str" =>
                call.kind # "typeerror" /\ policy.allow_origin = {StrEntry(origin.toks[1])}
           /\ origin.t = "pattern" =>
                call.kind # "typeerror" /\ policy.allow_origin = origin.ents
           /\ (scope = "http" /\ headers.t = "str") =>
                call.kind # "typeerror" /\ policy.allow_headers = <<headers.toks[1]>>

\* C19: no response carries access-control-allow-origin "*" together with
\* access-control-allow-credentials true, whatever the policy and the
\* request Origin, the Origin "*" under a pattern that matches it included.
C19_NoWildcardWithCredentials ==
    ~(/\ response.access_control_allow_origin = Star
      /\ response.access_control_allow_credentials)

\* C20: the access-control-allow-origin _apply_cors writes is "*" or the
\* Origin of the request being answered, and it is "*" only when the policy
\* has the wildcard in allow_origin with send_origin_wildcard true, or the
\* request's Origin is itself "*".
C20_OriginWritten ==
    (pc = "called" /\ response.access_control_allow_origin # None) =>
        /\ call.kind = "applied"
        /\ response.access_control_allow_origin \in {Star, request.origin}
        /\ response.access_control_allow_origin = Star =>
              \/ StrEntry(Star) \in policy.allow_origin /\ policy.send_origin_wildcard
              \/ request.origin = Star

\* A pattern accepts an Origin it is only a prefix of: the Origin is written,
\* not the entry.
C20_Witness ==
    /\ pc = "called"
    /\ policy.allow_origin = {ReEntry(<<"a">>)}
    /\ request.origin = <<"a", "*">>
    /\ response.access_control_allow_origin = <<"a", "*">>

\* The outcomes of _apply_cors on a fresh response for the request and the
\* policy of the state: one for every order the set may be iterated in.
Runs ==
    ApplyCors(request.origin, request.access_control_request_headers,
              request.access_control_request_method, request.method,
              ResponseFor(request.method), policy)

\* The wildcard with send_origin_wildcard true beside another entry that
\* accepts the request's Origin.
Tie ==
    /\ StrEntry(Star) \in policy.allow_origin
    /\ policy.send_origin_wildcard
    /\ request.origin \notin {None, <<>>}
    /\ \E e \in policy.allow_origin \ {StrEntry(Star)} : EntryMatches(e, request.origin)

VaryOrigin(r) == HeaderSetContains(r.vary, OriginToken)

\* C21 as stated: any other run of _apply_cors on a fresh response with the
\* same request and the same policy, whatever the order the set is iterated
\* in, gives the same access-control-allow-origin and the same Vary.
C21_SameDecision_Original ==
    pc = "called" =>
        \A out \in Runs :
            /\ out.response.access_control_allow_origin
                  = response.access_control_allow_origin
            /\ out.response.vary = response.vary

\* C21 amended: any other run gives the same access-control-allow-origin
\* and the same Vary, except when the set holds the wildcard with
\* send_origin_wildcard true beside another entry that accepts the Origin:
\* then each run writes "*" or the request's Origin (the iteration order
\* decides) and adds Origin to Vary exactly when the value it wrote holds
\* no "*".
C21_SameDecision ==
    pc = "called" =>
        \A out \in Runs :
            \/ /\ out.response.access_control_allow_origin
                     = response.access_control_allow_origin
               /\ out.response.vary = response.vary
               /\ Tie /\ call.kind = "applied" =>
                     VaryOrigin(response) =
                         ~ContainsChar(response.access_control_allow_origin, "*")
            \/ /\ Tie
               /\ \A r \in {out.response, response} :
                     /\ r.access_control_allow_origin \in {Star, request.origin}
                     /\ VaryOrigin(r) = ~ContainsChar(r.access_control_allow_origin, "*")

\* The wildcard beside an exact entry for the Origin, send_origin_wildcard
\* true: this run echoed the Origin, another one writes "*".
C21_Witness ==
    /\ pc = "called"
    /\ policy.allow_origin = {StrEntry(Star), StrEntry(<<"a">>)}
    /\ policy.send_origin_wildcard
    /\ request.origin = <<"a">>
    /\ response.access_control_allow_origin = <<"a">>
    /\ VaryOrigin(response)
    /\ \E out \in Runs : out.response.access_control_allow_origin = Star

====
